---- MODULE Spec2Model ----
(***************************************************************************)
(* Consensus constants of the Monacoin fork of rust-bitcoin:               *)
(*   src/blockdata/constants.rs  module constants, max_target, the genesis *)
(*                               coinbase transaction and genesis_block    *)
(*   src/consensus/params.rs     the per-network Params table and          *)
(*                               difficulty_adjustment_interval            *)
(*                                                                         *)
(* Every function of the two files is pure.  The state machine is a set of *)
(* concurrent callers, each holding the value its last call returned and   *)
(* the value of one method applied to it.                                  *)
(*                                                                         *)
(* Number representation.  TLC's integers are 32-bit signed, so a value    *)
(* that can exceed 2^31 - 1 (u32 with the top bit set, u64, Uint256) is a  *)
(* little-endian sequence of bytes of its width: 4, 8 or 32 bytes.  u32    *)
(* and u64 fields whose every value in the program is below 2^31 are       *)
(* plain naturals.                                                         *)
(***************************************************************************)
EXTENDS Integers, Sequences, FiniteSets, TLC

(***************************************************************************)
(* Bounds of the model.                                                    *)
(***************************************************************************)
NumCallers == 2

(***************************************************************************)
(* Fixed-width unsigned arithmetic on little-endian byte sequences.        *)
(***************************************************************************)
RECURSIVE LE(_, _)
\* the low `len` bytes of the natural n, least significant first
LE(n, len) == IF len = 0 THEN <<>> ELSE <<n % 256>> \o LE(n \div 256, len - 1)

\* a u32 literal from its two 16-bit halves, most significant first
u32x(h1, h0) == LE(h0, 2) \o LE(h1, 2)

\* a u64 literal from its four 16-bit groups, most significant first
u64x(h3, h2, h1, h0) == LE(h0, 2) \o LE(h1, 2) \o LE(h2, 2) \o LE(h3, 2)

RECURSIVE LeqFrom(_, _, _)
\* a <= b, comparing bytes from index i down (most significant first)
LeqFrom(a, b, i) ==
    IF i = 0 THEN TRUE
    ELSE IF a[i] < b[i] THEN TRUE
    ELSE IF a[i] > b[i] THEN FALSE
    ELSE LeqFrom(a, b, i - 1)

\* Ord for Uint256: unsigned comparison, most significant limb first
Leq(a, b) == LeqFrom(a, b, Len(a))

\* x << n on a fixed width: zero fill, bits shifted past the top are dropped
Shl(x, n) ==
    LET k == n \div 8
        p == 2 ^ (n % 8)
        at(i) == IF i >= 1 THEN x[i] ELSE 0
    IN  [i \in 1..Len(x) |-> ((at(i - k) * p) % 256) + ((at(i - k - 1) * p) \div 256)]

\* x >> n on a fixed width, zero fill
Shr(x, n) ==
    LET k == n \div 8
        p == 2 ^ (n % 8)
        q == 2 ^ (8 - (n % 8))
        at(i) == IF i <= Len(x) THEN x[i] ELSE 0
    IN  [i \in 1..Len(x) |-> (at(i + k) \div p) + ((at(i + k + 1) * q) % 256)]

RECURSIVE AddCarry(_, _, _, _)
\* a + b + carry from byte i up, truncated to the width of a
AddCarry(a, b, i, carry) ==
    IF i > Len(a) THEN <<>>
    ELSE LET s == a[i] + b[i] + carry
         IN  <<s % 256>> \o AddCarry(a, b, i + 1, s \div 256)

\* wrapping addition of two values of one width
Add(a, b) == AddCarry(a, b, 1, 0)

RECURSIVE MulByte(_, _, _, _)
\* a * d + carry for one byte d, from byte i up, truncated to the width of a
MulByte(a, d, i, carry) ==
    IF i > Len(a) THEN <<>>
    ELSE LET s == a[i] * d + carry
         IN  <<s % 256>> \o MulByte(a, d, i + 1, s \div 256)

RECURSIVE MulFrom(_, _, _)
\* a * b, schoolbook over the bytes of b from byte j up, truncated to the width
MulFrom(a, b, j) ==
    IF j > Len(b) THEN [i \in 1..Len(a) |-> 0]
    ELSE Add(Shl(MulByte(a, b[j], 1, 0), 8 * (j - 1)), MulFrom(a, b, j + 1))

\* multiplication of two values of one width, truncated to that width
Mul(a, b) == MulFrom(a, b, 1)

\* number of significant bytes of x (0 for zero)
RECURSIVE SizeFrom(_, _)
SizeFrom(x, i) == IF i = 0 THEN 0 ELSE IF x[i] # 0 THEN i ELSE SizeFrom(x, i - 1)

NumBytes(x) == SizeFrom(x, Len(x))

(***************************************************************************)
(* util::uint::Uint256: four u64 limbs, least significant limb first.      *)
(***************************************************************************)
\* Uint256([l0, l1, l2, l3]) as its 32 little-endian bytes
Uint256(limbs) == limbs[1] \o limbs[2] \o limbs[3] \o limbs[4]

\* Uint256::from_u64 of a value below 2^31
Uint256_from_u64(n) == LE(n, 32)

Uint256_zero == LE(0, 32)

\* Uint256 << bits, the Shl impl of a fixed 256-bit width
Uint256_shl(x, bits) == Shl(x, bits)

(***************************************************************************)
(* hashes::sha256d: SHA-256 applied twice (FIPS 180-4).  A 32-bit word is  *)
(* the pair <<high 16 bits, low 16 bits>>.                                 *)
(***************************************************************************)
RECURSIVE XorBits(_, _, _)
XorBits(a, b, n) ==
    IF n = 0 THEN 0
    ELSE (((a % 2) + (b % 2)) % 2) + 2 * XorBits(a \div 2, b \div 2, n - 1)

RECURSIVE AndBits(_, _, _)
AndBits(a, b, n) ==
    IF n = 0 THEN 0
    ELSE ((a % 2) * (b % 2)) + 2 * AndBits(a \div 2, b \div 2, n - 1)

\* xor and and of two 4-bit values a, b, indexed by 16 * a + b
XorTab == [i \in 0..255 |-> XorBits(i \div 16, i % 16, 4)]

AndTab == [i \in 0..255 |-> AndBits(i \div 16, i % 16, 4)]

\* a 16-bit operation from its 4-bit table
Bits16(tab, a, b) ==
      tab[(a \div 4096) * 16 + (b \div 4096)] * 4096
    + tab[((a \div 256) % 16) * 16 + ((b \div 256) % 16)] * 256
    + tab[((a \div 16) % 16) * 16 + ((b \div 16) % 16)] * 16
    + tab[(a % 16) * 16 + (b % 16)]

WXor(x, y) == <<Bits16(XorTab, x[1], y[1]), Bits16(XorTab, x[2], y[2])>>

WAnd(x, y) == <<Bits16(AndTab, x[1], y[1]), Bits16(AndTab, x[2], y[2])>>

WNot(x) == <<65535 - x[1], 65535 - x[2]>>

\* addition modulo 2^32
WAdd(x, y) ==
    LET lo == x[2] + y[2]
        hi == x[1] + y[1] + (lo \div 65536)
    IN  <<hi % 65536, lo % 65536>>

\* rotate right by r bits, 0 <= r < 32
RotR(x, r) ==
    LET y == IF r >= 16 THEN <<x[2], x[1]>> ELSE x
        p == 2 ^ (r % 16)
        q == 2 ^ (16 - (r % 16))
    IN  <<(y[1] \div p) + (((y[2] % p) * q) % 65536),
          (y[2] \div p) + (((y[1] % p) * q) % 65536)>>

\* shift right by r bits, 0 <= r < 16
ShR(x, r) ==
    LET p == 2 ^ r
        q == 2 ^ (16 - r)
    IN  <<x[1] \div p, (x[2] \div p) + (((x[1] % p) * q) % 65536)>>

Ch(x, y, z) == WXor(WAnd(x, y), WAnd(WNot(x), z))

Maj(x, y, z) == WXor(WXor(WAnd(x, y), WAnd(x, z)), WAnd(y, z))

BigSigma0(x) == WXor(WXor(RotR(x, 2), RotR(x, 13)), RotR(x, 22))

BigSigma1(x) == WXor(WXor(RotR(x, 6), RotR(x, 11)), RotR(x, 25))

SmallSigma0(x) == WXor(WXor(RotR(x, 7), RotR(x, 18)), ShR(x, 3))

SmallSigma1(x) == WXor(WXor(RotR(x, 17), RotR(x, 19)), ShR(x, 10))

\* the 64 round constants
Sha256K ==
    <<<<\H428a, \H2f98>>, <<\H7137, \H4491>>, <<\Hb5c0, \Hfbcf>>, <<\He9b5, \Hdba5>>,
       <<\H3956, \Hc25b>>, <<\H59f1, \H11f1>>, <<\H923f, \H82a4>>, <<\Hab1c, \H5ed5>>,
       <<\Hd807, \Haa98>>, <<\H1283, \H5b01>>, <<\H2431, \H85be>>, <<\H550c, \H7dc3>>,
       <<\H72be, \H5d74>>, <<\H80de, \Hb1fe>>, <<\H9bdc, \H06a7>>, <<\Hc19b, \Hf174>>,
       <<\He49b, \H69c1>>, <<\Hefbe, \H4786>>, <<\H0fc1, \H9dc6>>, <<\H240c, \Ha1cc>>,
       <<\H2de9, \H2c6f>>, <<\H4a74, \H84aa>>, <<\H5cb0, \Ha9dc>>, <<\H76f9, \H88da>>,
       <<\H983e, \H5152>>, <<\Ha831, \Hc66d>>, <<\Hb003, \H27c8>>, <<\Hbf59, \H7fc7>>,
       <<\Hc6e0, \H0bf3>>, <<\Hd5a7, \H9147>>, <<\H06ca, \H6351>>, <<\H1429, \H2967>>,
       <<\H27b7, \H0a85>>, <<\H2e1b, \H2138>>, <<\H4d2c, \H6dfc>>, <<\H5338, \H0d13>>,
       <<\H650a, \H7354>>, <<\H766a, \H0abb>>, <<\H81c2, \Hc92e>>, <<\H9272, \H2c85>>,
       <<\Ha2bf, \He8a1>>, <<\Ha81a, \H664b>>, <<\Hc24b, \H8b70>>, <<\Hc76c, \H51a3>>,
       <<\Hd192, \He819>>, <<\Hd699, \H0624>>, <<\Hf40e, \H3585>>, <<\H106a, \Ha070>>,
       <<\H19a4, \Hc116>>, <<\H1e37, \H6c08>>, <<\H2748, \H774c>>, <<\H34b0, \Hbcb5>>,
       <<\H391c, \H0cb3>>, <<\H4ed8, \Haa4a>>, <<\H5b9c, \Hca4f>>, <<\H682e, \H6ff3>>,
       <<\H748f, \H82ee>>, <<\H78a5, \H636f>>, <<\H84c8, \H7814>>, <<\H8cc7, \H0208>>,
       <<\H90be, \Hfffa>>, <<\Ha450, \H6ceb>>, <<\Hbef9, \Ha3f7>>, <<\Hc671, \H78f2>>>>

\* the initial hash value
Sha256H0 ==
    <<<<\H6a09, \He667>>, <<\Hbb67, \Hae85>>, <<\H3c6e, \Hf372>>, <<\Ha54f, \Hf53a>>,
       <<\H510e, \H527f>>, <<\H9b05, \H688c>>, <<\H1f83, \Hd9ab>>, <<\H5be0, \Hcd19>>>>

RECURSIVE Schedule(_)
\* the message schedule W[1..64] grown from the 16 words of a block
Schedule(w) ==
    IF Len(w) = 64 THEN w
    ELSE LET t == Len(w) + 1
         IN  Schedule(Append(w,
                 WAdd(WAdd(SmallSigma1(w[t - 2]), w[t - 7]),
                      WAdd(SmallSigma0(w[t - 15]), w[t - 16]))))

RECURSIVE Rounds(_, _, _)
\* rounds t..64 on the working variables s = <<a, b, c, d, e, f, g, h>>
\* (Len(s) is read first so that s is a computed value before the next round)
Rounds(s, w, t) ==
    IF Len(s) # 8 \/ t > 64 THEN s
    ELSE LET t1 == WAdd(WAdd(WAdd(s[8], BigSigma1(s[5])), Ch(s[5], s[6], s[7])),
                        WAdd(Sha256K[t], w[t]))
             t2 == WAdd(BigSigma0(s[1]), Maj(s[1], s[2], s[3]))
         IN  Rounds(<<WAdd(t1, t2), s[1], s[2], s[3], WAdd(s[4], t1), s[5], s[6], s[7]>>,
                    w, t + 1)

\* the 16 big-endian words of the 64-byte block starting after byte `off`
BlockWords(m, off) ==
    [i \in 1..16 |-> <<m[off + 4 * i - 3] * 256 + m[off + 4 * i - 2],
                       m[off + 4 * i - 1] * 256 + m[off + 4 * i]>>]

\* one compression: the hash value h updated with the block after byte `off`
Compress(h, m, off) ==
    LET s == Rounds(h, Schedule(BlockWords(m, off)), 1)
    IN  [i \in 1..8 |-> WAdd(h[i], s[i])]

RECURSIVE Blocks(_, _, _)
\* the hash value after the blocks of m from byte `off` on
Blocks(h, m, off) ==
    IF Len(h) # 8 \/ off >= Len(m) THEN h ELSE Blocks(Compress(h, m, off), m, off + 64)

RECURSIVE Reverse(_)
Reverse(s) == IF s = <<>> THEN <<>> ELSE Append(Reverse(Tail(s)), Head(s))

\* the message, a 1 bit, zero bits to 56 mod 64 bytes, the bit length big-endian
Sha256Pad(msg) ==
    LET zeros == (119 - (Len(msg) % 64)) % 64
    IN  msg \o <<128>> \o [i \in 1..zeros |-> 0] \o Reverse(LE(8 * Len(msg), 8))

\* the digest bytes: the eight words, big-endian
Sha256(msg) ==
    LET h == Blocks(Sha256H0, Sha256Pad(msg), 0)
    IN  [i \in 1..32 |->
            LET wd == h[(i + 3) \div 4]
                k == (i - 1) % 4
            IN  IF k = 0 THEN wd[1] \div 256
                ELSE IF k = 1 THEN wd[1] % 256
                ELSE IF k = 2 THEN wd[2] \div 256
                ELSE wd[2] % 256]

\* sha256d::Hash::hash
Sha256d(msg) == Sha256(Sha256(msg))

(***************************************************************************)
(* network::constants::Network                                             *)
(***************************************************************************)
Network == {"Monacoin", "MonacoinTestnet", "MonacoinRegtest"}

(***************************************************************************)
(* blockdata/constants.rs: module constants                                *)
(***************************************************************************)
MAX_SEQUENCE == u32x(\Hffff, \Hffff)

COIN_VALUE == 100000000

TARGET_BLOCK_SPACING == 600

DIFFCHANGE_INTERVAL == 2016

DIFFCHANGE_TIMESPAN == 14 * 24 * 3600

\* pub fn max_target(_: Network) -> Uint256
max_target(network) == Uint256_shl(Uint256_from_u64(\Hffff), 208)

(***************************************************************************)
(* hashes::hex: a hex string is the sequence of the values of its digits.  *)
(***************************************************************************)
\* Vec::from_hex: two digits per byte, high digit first
FromHex(s) == [i \in 1..(Len(s) \div 2) |-> 16 * s[2 * i - 1] + s[2 * i]]

\* the lower-case hex of a byte sequence, two digits per byte
ToHex(b) ==
    [i \in 1..(2 * Len(b)) |->
        IF i % 2 = 1 THEN b[(i + 1) \div 2] \div 16 ELSE b[i \div 2] % 16]

\* format!("{:x}", h) of a sha256d-based hash (Txid, BlockHash, TxMerkleNode):
\* the digest is displayed with its bytes reversed
HashToHex(h) == ToHex(Reverse(h))

\* Default::default() of a hash type: 32 zero bytes
Hash_default == [i \in 1..32 |-> 0]

(***************************************************************************)
(* blockdata::script::Builder and blockdata::opcodes                       *)
(***************************************************************************)
OP_PUSHDATA1 == \H4c

OP_PUSHDATA2 == \H4d

OP_PUSHDATA4 == \H4e

OP_CHECKSIG == \Hac

Builder_new == <<>>

RECURSIVE ScriptIntBytes(_)
\* build_scriptint for n > 0: little-endian magnitude, and one more zero byte
\* when the top byte would otherwise carry the sign bit
ScriptIntBytes(abs) ==
    IF abs > 255 THEN <<abs % 256>> \o ScriptIntBytes(abs \div 256)
    ELSE IF abs >= 128 THEN <<abs, 0>>
    ELSE <<abs>>

build_scriptint(n) == IF n = 0 THEN <<>> ELSE ScriptIntBytes(n)

\* Builder::push_slice: the length prefix of the data, then the data
push_slice(script, data) ==
    LET n == Len(data)
        prefix == IF n < OP_PUSHDATA1 THEN <<n>>
                  ELSE IF n < 256 THEN <<OP_PUSHDATA1, n>>
                  ELSE IF n < 65536 THEN <<OP_PUSHDATA2>> \o LE(n, 2)
                  ELSE <<OP_PUSHDATA4>> \o LE(n, 4)
    IN  script \o prefix \o data

\* Builder::push_scriptint: always the explicit encoding, never OP_PUSHNUM_n
push_scriptint(script, n) == push_slice(script, build_scriptint(n))

\* Builder::push_opcode
push_opcode(script, op) == Append(script, op)

\* Builder::into_script
into_script(script) == script

(***************************************************************************)
(* consensus::encode: the serialization that is hashed                     *)
(***************************************************************************)
\* VarInt: the compact size of a count or length
VarInt(n) ==
    IF n < 253 THEN <<n>>
    ELSE IF n < 65536 THEN <<253>> \o LE(n, 2)
    ELSE <<254>> \o LE(n, 4)

\* serialize(&script): the length, then the bytes
SerializeScript(script) == VarInt(Len(script)) \o script

SerializeTxIn(in) ==
    in.previous_output.txid \o in.previous_output.vout
        \o SerializeScript(in.script_sig) \o in.sequence

SerializeTxOut(out) == out.value \o SerializeScript(out.script_pubkey)

RECURSIVE Concat(_)
Concat(ss) == IF ss = <<>> THEN <<>> ELSE Head(ss) \o Concat(Tail(ss))

\* the serialization without witness data, the one txid() hashes
SerializeTx(tx) ==
    LE(tx.version, 4)
        \o VarInt(Len(tx.input))
        \o Concat([i \in 1..Len(tx.input) |-> SerializeTxIn(tx.input[i])])
        \o VarInt(Len(tx.output))
        \o Concat([i \in 1..Len(tx.output) |-> SerializeTxOut(tx.output[i])])
        \o LE(tx.lock_time, 4)

\* the 80 bytes of a block header
SerializeHeader(h) ==
    LE(h.version, 4) \o h.prev_blockhash \o h.merkle_root
        \o LE(h.time, 4) \o LE(h.bits, 4) \o LE(h.nonce, 4)

\* Transaction::txid
txid(tx) == Sha256d(SerializeTx(tx))

\* BlockHeader::block_hash
block_hash(header) == Sha256d(SerializeHeader(header))

\* OutPoint::null()
OutPoint_null == [txid |-> Hash_default, vout |-> u32x(\Hffff, \Hffff)]

(***************************************************************************)
(* blockdata::block::BlockHeader: the compact ("bits") form of a target    *)
(***************************************************************************)
\* BlockHeader::u256_from_compact_target
u256_from_compact_target(bits) ==
    LET unshifted_expt == bits \div (2 ^ 24)
        mant == IF unshifted_expt <= 3
                THEN (bits % (2 ^ 24)) \div (2 ^ (8 * (3 - unshifted_expt)))
                ELSE bits % (2 ^ 24)
        expt == IF unshifted_expt <= 3 THEN 0 ELSE 8 * (unshifted_expt - 3)
    IN  IF mant > \H7fffff THEN Uint256_zero
        ELSE Uint256_shl(Uint256_from_u64(mant), expt)

\* BlockHeader::target
target(header) == u256_from_compact_target(header.bits)

\* BlockHeader::compact_target_from_u256
compact_target_from_u256(value) ==
    LET size == NumBytes(value)
        low3(x) == x[1] + 256 * x[2] + 65536 * x[3]
        compact == IF size <= 3 THEN low3(Shl(value, 8 * (3 - size)))
                   ELSE low3(Shr(value, 8 * (size - 3)))
    IN  IF compact >= \H800000
        THEN (compact \div 256) + (size + 1) * (2 ^ 24)
        ELSE compact + size * (2 ^ 24)

(***************************************************************************)
(* blockdata/constants.rs: the genesis coinbase and the genesis blocks     *)
(***************************************************************************)
\* the message with its date spelled "31st"
GenesisMessage_31st ==
    <<68, 101, 99, 46, 32, 51, 49, 115, 116, 32, 50, 48, 49, 51, 32, 74, 97, 112, 97, 110,
      44, 32, 84, 104, 101, 32, 119, 105, 110, 110, 105, 110, 103, 32, 110, 117, 109, 98,
      101, 114, 115, 32, 111, 102, 32, 116, 104, 101, 32, 50, 48, 49, 51, 32, 89, 101, 97,
      114, 45, 69, 110, 100, 32, 74, 117, 109, 98, 111, 32, 76, 111, 116, 116, 101, 114,
      121, 58, 50, 51, 45, 49, 51, 48, 57, 49, 54>>

\* b"Dec. 31th 2013 Japan, The winning numbers of the 2013 Year-End Jumbo
\*   Lottery:23-130916"
GenesisMessage ==
    <<68, 101, 99, 46, 32, 51, 49, 116, 104, 32, 50, 48, 49, 51, 32, 74, 97, 112, 97, 110,
      44, 32, 84, 104, 101, 32, 119, 105, 110, 110, 105, 110, 103, 32, 110, 117, 109, 98,
      101, 114, 115, 32, 111, 102, 32, 116, 104, 101, 32, 50, 48, 49, 51, 32, 89, 101, 97,
      114, 45, 69, 110, 100, 32, 74, 117, 109, 98, 111, 32, 76, 111, 116, 116, 101, 114,
      121, 58, 50, 51, 45, 49, 51, 48, 57, 49, 54>>

\* "040184710fa689ad5023690c80f3a49c8f13f8d45b8c857fbcbc8bc4a8e4d3eb4b
\*  10f4d4604fa08dce601aaf0f470216fe1b51850b4acf21b179c45070ac7b03a9"
GenesisPubkeyHex ==
    <<0, 4, 0, 1, 8, 4, 7, 1, 0, 15, 10, 6, 8, 9, 10, 13, 5, 0, 2, 3, 6, 9, 0, 12, 8, 0,
      15, 3, 10, 4, 9, 12, 8, 15, 1, 3, 15, 8, 13, 4, 5, 11, 8, 12, 8, 5, 7, 15, 11, 12,
      11, 12, 8, 11, 12, 4, 10, 8, 14, 4, 13, 3, 14, 11, 4, 11, 1, 0, 15, 4, 13, 4, 6, 0,
      4, 15, 10, 0, 8, 13, 12, 14, 6, 0, 1, 10, 10, 15, 0, 15, 4, 7, 0, 2, 1, 6, 15, 14,
      1, 11, 5, 1, 8, 5, 0, 11, 4, 10, 12, 15, 2, 1, 11, 1, 7, 9, 12, 4, 5, 0, 7, 0, 10,
      12, 7, 11, 0, 3, 10, 9>>

in_script ==
    into_script(push_slice(push_scriptint(push_scriptint(Builder_new, 486604799), 4),
                           GenesisMessage))

out_script ==
    into_script(push_opcode(push_slice(Builder_new, FromHex(GenesisPubkeyHex)),
                            OP_CHECKSIG))

genesis_txin ==
    [previous_output |-> OutPoint_null,
     script_sig |-> in_script,
     sequence |-> MAX_SEQUENCE,
     witness |-> <<>>]

\* the subsidy written as 50 base units, the factor COIN_VALUE left out
genesis_txout_no_coin ==
    [value |-> LE(50, 8),
     script_pubkey |-> out_script]

genesis_txout ==
    [value |-> Mul(LE(50, 8), LE(COIN_VALUE, 8)),
     script_pubkey |-> out_script]

\* fn bitcoin_genesis_tx() -> Transaction
bitcoin_genesis_tx ==
    [version |-> 1,
     lock_time |-> 0,
     input |-> <<genesis_txin>>,
     output |-> <<genesis_txout>>]

\* let txdata = vec![bitcoin_genesis_tx()];
genesis_txdata == <<bitcoin_genesis_tx>>

\* let hash: sha256d::Hash = txdata[0].txid().into(); let merkle_root = hash.into();
genesis_merkle_root == txid(genesis_txdata[1])

\* genesis_block with the test network's nonce copied from the main network's arm
genesis_block_copied_nonce(network) ==
    CASE network = "Monacoin" ->
           [header |-> [version |-> 1,
                        prev_blockhash |-> Hash_default,
                        merkle_root |-> genesis_merkle_root,
                        time |-> 1388479472,
                        bits |-> \H1e0ffff0,
                        nonce |-> 1234534],
            txdata |-> genesis_txdata]
      [] network = "MonacoinTestnet" ->
           [header |-> [version |-> 1,
                        prev_blockhash |-> Hash_default,
                        merkle_root |-> genesis_merkle_root,
                        time |-> 1488924140,
                        bits |-> \H1e0ffff0,
                        nonce |-> 1234534],
            txdata |-> genesis_txdata]
      [] network = "MonacoinRegtest" ->
           [header |-> [version |-> 1,
                        prev_blockhash |-> Hash_default,
                        merkle_root |-> genesis_merkle_root,
                        time |-> 1296688602,
                        bits |-> \H207fffff,
                        nonce |-> 1],
            txdata |-> genesis_txdata]

\* pub fn genesis_block(network: Network) -> Block
genesis_block(network) ==
    CASE network = "Monacoin" ->
           [header |-> [version |-> 1,
                        prev_blockhash |-> Hash_default,
                        merkle_root |-> genesis_merkle_root,
                        time |-> 1388479472,
                        bits |-> \H1e0ffff0,
                        nonce |-> 1234534],
            txdata |-> genesis_txdata]
      [] network = "MonacoinTestnet" ->
           [header |-> [version |-> 1,
                        prev_blockhash |-> Hash_default,
                        merkle_root |-> genesis_merkle_root,
                        time |-> 1488924140,
                        bits |-> \H1e0ffff0,
                        nonce |-> 2122860],
            txdata |-> genesis_txdata]
      [] network = "MonacoinRegtest" ->
           [header |-> [version |-> 1,
                        prev_blockhash |-> Hash_default,
                        merkle_root |-> genesis_merkle_root,
                        time |-> 1296688602,
                        bits |-> \H207fffff,
                        nonce |-> 1],
            txdata |-> genesis_txdata]

(***************************************************************************)
(* consensus/params.rs                                                     *)
(***************************************************************************)
\* the main network's limit left at the upstream value 0xffff << 208
MAX_BITS_BITCOIN_upstream ==
    Uint256(<<u64x(\H0000, \H0000, \H0000, \H0000),
              u64x(\H0000, \H0000, \H0000, \H0000),
              u64x(\H0000, \H0000, \H0000, \H0000),
              u64x(\H0000, \H0000, \Hffff, \H0000)>>)

MAX_BITS_BITCOIN ==
    Uint256(<<u64x(\Hffff, \Hffff, \Hffff, \Hffff),
              u64x(\Hffff, \Hffff, \Hffff, \Hffff),
              u64x(\Hffff, \Hffff, \Hffff, \Hffff),
              u64x(\H0000, \H0fff, \Hffff, \Hffff)>>)

MAX_BITS_TESTNET ==
    Uint256(<<u64x(\Hffff, \Hffff, \Hffff, \Hffff),
              u64x(\Hffff, \Hffff, \Hffff, \Hffff),
              u64x(\Hffff, \Hffff, \Hffff, \Hffff),
              u64x(\H0000, \H0fff, \Hffff, \Hffff)>>)

MAX_BITS_REGTEST ==
    Uint256(<<u64x(\H0000, \H0000, \H0000, \H0000),
              u64x(\H0000, \H0000, \H0000, \H0000),
              u64x(\H0000, \H0000, \H0000, \H0000),
              u64x(\H7fff, \Hff00, \H0000, \H0000)>>)

\* the arm Network::Monacoin of Params::new
Params_Monacoin ==
    [network |-> "Monacoin",
     bip16_time |-> 0,
     bip34_height |-> 0,
     bip65_height |-> 977759,
     bip66_height |-> 977759,
     rule_change_activation_threshold |-> 7560,
     miner_confirmation_window |-> 10080,
     pow_limit |-> MAX_BITS_BITCOIN,
     pow_target_spacing |-> 90,
     pow_target_timespan |-> 95040,
     allow_min_difficulty_blocks |-> FALSE,
     no_pow_retargeting |-> FALSE,
     switch_lyra2rev2_dgwblock |-> 450000]

\* the arm Network::MonacoinTestnet of Params::new
Params_MonacoinTestnet ==
    [network |-> "MonacoinTestnet",
     bip16_time |-> 0,
     bip34_height |-> 0,
     bip65_height |-> 100000000,
     bip66_height |-> 100000000,
     rule_change_activation_threshold |-> 75,
     miner_confirmation_window |-> 100,
     pow_limit |-> MAX_BITS_TESTNET,
     pow_target_spacing |-> 90,
     pow_target_timespan |-> 95040,
     allow_min_difficulty_blocks |-> TRUE,
     no_pow_retargeting |-> FALSE,
     switch_lyra2rev2_dgwblock |-> 60]

\* the regtest arm with the upstream test-chain threshold 1512 left in place
Params_MonacoinRegtest_1512 ==
    [network |-> "MonacoinRegtest",
     bip16_time |-> 0,
     bip34_height |-> 100000000,
     bip65_height |-> 100000000,
     bip66_height |-> 100000000,
     rule_change_activation_threshold |-> 1512,
     miner_confirmation_window |-> 144,
     pow_limit |-> MAX_BITS_REGTEST,
     pow_target_spacing |-> 90,
     pow_target_timespan |-> 95040,
     allow_min_difficulty_blocks |-> TRUE,
     no_pow_retargeting |-> TRUE,
     switch_lyra2rev2_dgwblock |-> 30]

\* the arm Network::MonacoinRegtest of Params::new
Params_MonacoinRegtest ==
    [network |-> "MonacoinRegtest",
     bip16_time |-> 0,
     bip34_height |-> 100000000,
     bip65_height |-> 100000000,
     bip66_height |-> 100000000,
     rule_change_activation_threshold |-> 108,
     miner_confirmation_window |-> 144,
     pow_limit |-> MAX_BITS_REGTEST,
     pow_target_spacing |-> 90,
     pow_target_timespan |-> 95040,
     allow_min_difficulty_blocks |-> TRUE,
     no_pow_retargeting |-> TRUE,
     switch_lyra2rev2_dgwblock |-> 30]

\* Params::new with the test network falling into the main network's arm
ParamsNew_wrong_arm(network) ==
    CASE network = "Monacoin" -> Params_Monacoin
      [] network = "MonacoinTestnet" -> Params_Monacoin
      [] network = "MonacoinRegtest" -> Params_MonacoinRegtest

\* Params::new(network): the match over Network
ParamsNew(network) ==
    CASE network = "Monacoin" -> Params_Monacoin
      [] network = "MonacoinTestnet" -> Params_MonacoinTestnet
      [] network = "MonacoinRegtest" -> Params_MonacoinRegtest

\* the interval taken over the module constant TARGET_BLOCK_SPACING
difficulty_adjustment_interval_const_spacing(self) ==
    self.pow_target_timespan \div TARGET_BLOCK_SPACING

\* Params::difficulty_adjustment_interval(&self)
difficulty_adjustment_interval(self) ==
    self.pow_target_timespan \div self.pow_target_spacing

(***************************************************************************)
(* Hashing is a pure function of the bytes hashed, so the digests of the   *)
(* headers and transactions the program builds are computed once each and  *)
(* looked up by the value hashed.                                          *)
(***************************************************************************)
\* <<header, header.block_hash()>> for every header genesis_block builds
BlockHashes ==
    {<<genesis_block(n).header, block_hash(genesis_block(n).header)>> : n \in Network}

\* <<tx, tx.txid()>> for every transaction genesis_block builds
Txids ==
    {<<genesis_block(n).txdata[i], txid(genesis_block(n).txdata[i])>> :
        n \in Network, i \in 1..Len(genesis_txdata)}

\* the digest recorded for the value x
Digest(table, x) == (CHOOSE p \in table : p[1] = x)[2]

(***************************************************************************)
(* The callers.  call[c] is the value caller c holds from its last call of *)
(* Params::new, genesis_block or max_target; derived[c] is the value of a  *)
(* method applied to it.  Each function runs on its own arguments and      *)
(* locals only, so a call is one step.                                     *)
(***************************************************************************)
VARIABLES call, derived

vars == <<call, derived>>

Caller == 1..NumCallers

Idle == [op |-> "idle"]

Init ==
    /\ call = [c \in Caller |-> Idle]
    /\ derived = [c \in Caller |-> Idle]

\* let p = Params::new(n);
CallParamsNew(c, n) ==
    /\ call[c] = Idle
    /\ call' = [call EXCEPT ![c] = [op |-> "Params::new", net |-> n, ret |-> ParamsNew(n)]]
    /\ UNCHANGED derived

\* let b = genesis_block(n);
CallGenesisBlock(c, n) ==
    /\ call[c] = Idle
    /\ call' = [call EXCEPT ![c] = [op |-> "genesis_block", net |-> n, ret |-> genesis_block(n)]]
    /\ UNCHANGED derived

\* let t = max_target(n);
CallMaxTarget(c, n) ==
    /\ call[c] = Idle
    /\ call' = [call EXCEPT ![c] = [op |-> "max_target", net |-> n, ret |-> max_target(n)]]
    /\ UNCHANGED derived

\* p.difficulty_adjustment_interval()
CallDifficultyAdjustmentInterval(c) ==
    /\ call[c].op = "Params::new"
    /\ derived[c] = Idle
    /\ derived' = [derived EXCEPT ![c] =
           [op |-> "difficulty_adjustment_interval",
            ret |-> difficulty_adjustment_interval(call[c].ret)]]
    /\ UNCHANGED call

\* b.header.block_hash()
CallBlockHash(c) ==
    /\ call[c].op = "genesis_block"
    /\ derived[c] = Idle
    /\ derived' = [derived EXCEPT ![c] =
           [op |-> "block_hash", ret |-> Digest(BlockHashes, call[c].ret.header)]]
    /\ UNCHANGED call

\* b.txdata[0].txid()
CallTxid(c) ==
    /\ call[c].op = "genesis_block"
    /\ derived[c] = Idle
    /\ derived' = [derived EXCEPT ![c] =
           [op |-> "txid", ret |-> Digest(Txids, call[c].ret.txdata[1])]]
    /\ UNCHANGED call

\* b.header.target()
CallTarget(c) ==
    /\ call[c].op = "genesis_block"
    /\ derived[c] = Idle
    /\ derived' = [derived EXCEPT ![c] =
           [op |-> "target", ret |-> target(call[c].ret.header)]]
    /\ UNCHANGED call

\* the caller drops what it holds
Drop(c) ==
    /\ call[c] # Idle
    /\ call' = [call EXCEPT ![c] = Idle]
    /\ derived' = [derived EXCEPT ![c] = Idle]

Next ==
    \E c \in Caller :
        \/ \E n \in Network : CallParamsNew(c, n)
        \/ \E n \in Network : CallGenesisBlock(c, n)
        \/ \E n \in Network : CallMaxTarget(c, n)
        \/ CallDifficultyAdjustmentInterval(c)
        \/ CallBlockHash(c)
        \/ CallTxid(c)
        \/ CallTarget(c)
        \/ Drop(c)

Spec == Init /\ [][Next]_vars

(***************************************************************************)
(* Literals of the tests of blockdata/constants.rs                         *)
(***************************************************************************)
\* "35e405a8a46f4dbc1941727aaf338939323c3b955232d0317f8731fe07ac4ba6"
GenesisTxidHex ==
    <<3, 5, 14, 4, 0, 5, 10, 8, 10, 4, 6, 15, 4, 13, 11, 12, 1, 9, 4, 1, 7, 2, 7, 10, 10,
      15, 3, 3, 8, 9, 3, 9, 3, 2, 3, 12, 3, 11, 9, 5, 5, 2, 3, 2, 13, 0, 3, 1, 7, 15, 8,
      7, 3, 1, 15, 14, 0, 7, 10, 12, 4, 11, 10, 6>>

\* "ff9f1c0116d19de7c9963845e129f9ed1bfc0b376eb54fd7afa42e0d418c8bb6"
MonacoinGenesisHashHex ==
    <<15, 15, 9, 15, 1, 12, 0, 1, 1, 6, 13, 1, 9, 13, 14, 7, 12, 9, 9, 6, 3, 8, 4, 5, 14,
      1, 2, 9, 15, 9, 14, 13, 1, 11, 15, 12, 0, 11, 3, 7, 6, 14, 11, 5, 4, 15, 13, 7, 10,
      15, 10, 4, 2, 14, 0, 13, 4, 1, 8, 12, 8, 11, 11, 6>>

\* "a2b106ceba3be0c6d097b2a6a6aacf9d638ba8258ae478158f449c321061e0b2"
MonacoinTestnetGenesisHashHex ==
    <<10, 2, 11, 1, 0, 6, 12, 14, 11, 10, 3, 11, 14, 0, 12, 6, 13, 0, 9, 7, 11, 2, 10, 6,
      10, 6, 10, 10, 12, 15, 9, 13, 6, 3, 8, 11, 10, 8, 2, 5, 8, 10, 14, 4, 7, 8, 1, 5, 8,
      15, 4, 4, 9, 12, 3, 2, 1, 0, 6, 1, 14, 0, 11, 2>>

\* the block hash literal the tests fix, by network
KnownGenesisHashHex ==
    ("Monacoin" :> MonacoinGenesisHashHex)
        @@ ("MonacoinTestnet" :> MonacoinTestnetGenesisHashHex)

(***************************************************************************)
(* What a caller holds                                                     *)
(***************************************************************************)
HoldsParams(c, n) == call[c].op = "Params::new" /\ call[c].net = n

HoldsBlock(c, n) == call[c].op = "genesis_block" /\ call[c].net = n

HoldsMaxTarget(c, n) == call[c].op = "max_target" /\ call[c].net = n

Has(c, method) == derived[c].op = method

(***************************************************************************)
(* Claims                                                                  *)
(***************************************************************************)

\* C1: on every network the target decoded from the genesis header's bits is
\* at most the pow_limit of Params::new for the same network.
C1_GenesisTargetWithinPowLimit ==
    \A n \in Network : \A b, p \in Caller :
        (HoldsBlock(b, n) /\ Has(b, "target") /\ HoldsParams(p, n))
            => Leq(derived[b].ret, call[p].ret.pow_limit)

\* a caller holds the regtest genesis target, another the regtest Params, and
\* the target is exactly the limit
C1_Witness ==
    \E b, p \in Caller :
        /\ HoldsBlock(b, "MonacoinRegtest") /\ Has(b, "target")
        /\ HoldsParams(p, "MonacoinRegtest")
        /\ derived[b].ret = call[p].ret.pow_limit
        /\ derived[b].ret = Shl(LE(\H7fffff, 32), 8 * (\H20 - 3))

\* C2 as stated: on every network the block hash of the genesis header equals
\* the hash literal fixed for that network, and the coinbase txid equals
\* 35e405a8...ac4ba6.
C2_EveryNetworkHashMatchesLiteral ==
    \A n \in Network : \A c \in Caller :
        /\ (HoldsBlock(c, n) /\ Has(c, "block_hash"))
               => /\ n \in DOMAIN KnownGenesisHashHex
                  /\ HashToHex(derived[c].ret) = KnownGenesisHashHex[n]
        /\ (HoldsBlock(c, n) /\ Has(c, "txid"))
               => HashToHex(derived[c].ret) = GenesisTxidHex

\* C2 amended: on Monacoin and MonacoinTestnet, the networks a hash literal is
\* fixed for, the block hash of the genesis header equals that literal; on
\* every network the coinbase txid equals 35e405a8...ac4ba6.
C2_KnownHashesMatch ==
    \A n \in Network : \A c \in Caller :
        /\ (HoldsBlock(c, n) /\ Has(c, "block_hash") /\ n \in DOMAIN KnownGenesisHashHex)
               => HashToHex(derived[c].ret) = KnownGenesisHashHex[n]
        /\ (HoldsBlock(c, n) /\ Has(c, "txid"))
               => HashToHex(derived[c].ret) = GenesisTxidHex

\* one caller holds the hashed Monacoin genesis header, another the
\* hashed MonacoinTestnet one
C2_Witness ==
    \E c, d \in Caller :
        /\ HoldsBlock(c, "Monacoin") /\ Has(c, "block_hash")
        /\ HashToHex(derived[c].ret) = MonacoinGenesisHashHex
        /\ HoldsBlock(d, "MonacoinTestnet") /\ Has(d, "block_hash")
        /\ HashToHex(derived[d].ret) = MonacoinTestnetGenesisHashHex

\* C3: the genesis block of every network holds exactly one transaction, of
\* version 1 and lock_time 0, with one input (null previous_output, sequence
\* MAX_SEQUENCE, empty witness) and one output of 5,000,000,000 base units.
C3_SingleCoinbase ==
    \A n \in Network : \A c \in Caller :
        HoldsBlock(c, n) =>
            LET txdata == call[c].ret.txdata
                tx == txdata[1]
            IN  /\ Len(txdata) = 1
                /\ tx.version = 1
                /\ tx.lock_time = 0
                /\ Len(tx.input) = 1
                /\ tx.input[1].previous_output.txid = [i \in 1..32 |-> 0]
                /\ tx.input[1].previous_output.vout = <<255, 255, 255, 255>>
                /\ tx.input[1].sequence = MAX_SEQUENCE
                /\ tx.input[1].witness = <<>>
                /\ Len(tx.output) = 1
                \* 5,000,000,000 = 0x0000_0001_2a05_f200
                /\ tx.output[1].value = u64x(\H0000, \H0001, \H2a05, \Hf200)

\* two callers hold genesis blocks of different networks, each with the
\* one 50-coin output
C3_Witness ==
    \E c, d \in Caller :
        /\ HoldsBlock(c, "MonacoinRegtest") /\ HoldsBlock(d, "Monacoin")
        /\ Len(call[c].ret.txdata) = 1 /\ Len(call[d].ret.txdata) = 1
        /\ call[c].ret.txdata[1].output[1].value = <<0, 242, 5, 42, 1, 0, 0, 0>>

\* the (time, bits, nonce) literals of the claim, by network
C4_Literals ==
    ("Monacoin" :> <<1388479472, \H1e0ffff0, 1234534>>)
        @@ ("MonacoinTestnet" :> <<1488924140, \H1e0ffff0, 2122860>>)
        @@ ("MonacoinRegtest" :> <<1296688602, \H207fffff, 1>>)

\* C4: the genesis header of every network has version 1, an all-zero
\* prev_blockhash, the network's literal (time, bits, nonce), and as
\* merkle_root the txid of the block's one transaction, which is the same on
\* every network.
C4_GenesisHeader ==
    \A n \in Network : \A c \in Caller :
        HoldsBlock(c, n) =>
            LET h == call[c].ret.header
            IN  /\ h.version = 1
                /\ h.prev_blockhash = [i \in 1..32 |-> 0]
                /\ <<h.time, h.bits, h.nonce>> = C4_Literals[n]
                /\ Has(c, "txid") => h.merkle_root = derived[c].ret
                /\ \A d \in Caller :
                       call[d].op = "genesis_block"
                           => call[d].ret.header.merkle_root = h.merkle_root

\* a caller holds the MonacoinTestnet block and the txid of its transaction,
\* which is the header's merkle_root, while another holds the Monacoin block
C4_Witness ==
    \E c, d \in Caller :
        /\ HoldsBlock(c, "MonacoinTestnet") /\ Has(c, "txid")
        /\ call[c].ret.header.merkle_root = derived[c].ret
        /\ call[c].ret.header.nonce = 2122860
        /\ HoldsBlock(d, "Monacoin")

\* C5: on every network difficulty_adjustment_interval() is the truncated
\* quotient pow_target_timespan / pow_target_spacing, the divisor is not
\* zero, and the result is 1056.
C5_AdjustmentInterval ==
    \A n \in Network : \A c \in Caller :
        (HoldsParams(c, n) /\ Has(c, "difficulty_adjustment_interval")) =>
            LET p == call[c].ret
                q == derived[c].ret
            IN  /\ p.pow_target_spacing # 0
                /\ q * p.pow_target_spacing <= p.pow_target_timespan
                /\ p.pow_target_timespan < (q + 1) * p.pow_target_spacing
                /\ q = 1056

\* a caller holds the interval of the MonacoinTestnet parameters
C5_Witness ==
    \E c \in Caller :
        /\ HoldsParams(c, "MonacoinTestnet")
        /\ Has(c, "difficulty_adjustment_interval")
        /\ derived[c].ret = 1056

\* C6: on every network pow_limit is attainable: decoding the compact form
\* of pow_limit gives pow_limit back.
C6_PowLimitAttainable ==
    \A n \in Network : \A c \in Caller :
        HoldsParams(c, n) =>
            u256_from_compact_target(compact_target_from_u256(call[c].ret.pow_limit))
                = call[c].ret.pow_limit

\* C7: on every network max_target is 0xFFFF << 208 with no set bit shifted
\* out, and the target decoded from the genesis header's bits does not
\* exceed it.
C7_MaxTargetIsLoosest ==
    \A n \in Network : \A m \in Caller :
        HoldsMaxTarget(m, n) =>
            /\ call[m].ret = [i \in 1..32 |-> IF i \in {27, 28} THEN 255 ELSE 0]
            /\ Shr(call[m].ret, 208) = LE(\Hffff, 32)
            /\ \A b \in Caller :
                   (HoldsBlock(b, n) /\ Has(b, "target"))
                       => Leq(derived[b].ret, call[m].ret)

\* what any two callers hold from the same call, and from the same method
\* applied to it, is equal; Params::new(n).network is n; and an idle caller's
\* call of Params::new or genesis_block returns for every network
C8_SameCallSameValue ==
    /\ \A c, d \in Caller :
           (call[c] # Idle /\ call[d].op = call[c].op /\ call[d].net = call[c].net)
               => /\ call[d].ret = call[c].ret
                  /\ (derived[c] # Idle /\ derived[d].op = derived[c].op)
                         => derived[d].ret = derived[c].ret
    /\ \A c \in Caller : \A n \in Network :
           /\ HoldsParams(c, n) => call[c].ret.network = n
           /\ call[c] = Idle
                  => (ENABLED CallParamsNew(c, n)) /\ (ENABLED CallGenesisBlock(c, n))

\* a step changes what one caller holds and nothing of any other caller
C8_StepIsLocal ==
    \A c, d \in Caller :
        (c # d /\ (call'[c] # call[c] \/ derived'[c] # derived[c]))
            => (call'[d] = call[d] /\ derived'[d] = derived[d])

C9_Windows ==
    ("Monacoin" :> 10080) @@ ("MonacoinTestnet" :> 100) @@ ("MonacoinRegtest" :> 144)

C10_ModuleConstantsAgree ==
    /\ DIFFCHANGE_INTERVAL = DIFFCHANGE_TIMESPAN \div TARGET_BLOCK_SPACING
    /\ \A n \in Network : \A c \in Caller :
           HoldsParams(c, n) =>
               /\ call[c].ret.pow_target_spacing = TARGET_BLOCK_SPACING
               /\ call[c].ret.pow_target_timespan = DIFFCHANGE_TIMESPAN
               /\ Has(c, "difficulty_adjustment_interval")
                      => derived[c].ret = DIFFCHANGE_INTERVAL

====
